---- MODULE Spec2Model ----
(***************************************************************************)
(* OPAQUE authentication worker (backend-rust): the four request handlers  *)
(* of routes.rs over the CREDENTIALS, BUNDLES and LOGIN_STATES key-value   *)
(* namespaces, and the sliding-window rate limiter of rate_limit.rs over   *)
(* RATE_LIMITS.                                                            *)
(*                                                                         *)
(* A handler is a sequence of steps; a step ends at a store operation the  *)
(* handler awaits, so that requests served concurrently interleave exactly *)
(* at the handler's await points.  Each namespace is read-after-write      *)
(* consistent per key.                                                     *)
(***************************************************************************)
EXTENDS Integers, Sequences, FiniteSets, TLC

----------------------------------------------------------------------------
(* Bounds of the model *)

\* the clock (Date::now) takes the values 0..MaxTime
MaxTime == 1
\* login-start stores at most MaxSessions server states in one behaviour
MaxSessions == 2
\* requests served by one worker in one behaviour
MaxServed == 4

\* RateLimitConfig of the checks: the code takes any configuration
max_requests == 2
window_seconds == 2

\* calls made on one client object
MaxCalls == 3

Procs == {1, 2}
Times == 0 .. MaxTime
\* the clock of the rate limiter runs long enough for three windows
RateTimes == 0 .. 3 * window_seconds

----------------------------------------------------------------------------
(* Values that cross the JSON boundary *)

\* clientIdentifier strings: their byte length and whether all characters
\* are hexadecimal digits
IdA == [name |-> "a", len |-> 64, hex |-> TRUE]
IdB == [name |-> "b", len |-> 64, hex |-> TRUE]
IdShort == [name |-> "s", len |-> 63, hex |-> TRUE]
IdNonHex == [name |-> "z", len |-> 64, hex |-> FALSE]
NoId == [name |-> "", len |-> 0, hex |-> TRUE]
ClientIds == {IdA, IdB, IdShort, IdNonHex}

\* base64 string fields: not base64 at all, base64 of bytes that are no
\* protocol message, base64 of a protocol message, base64 of a well-formed
\* protocol message the PAKE primitive rejects, or a finalization that does not verify
NotB64 == "not-base64"
B64Junk == "base64(junk)"
B64Rejected == "base64(rejected)"
B64Msg == "base64(message)"
Payloads == {NotB64, B64Junk, B64Rejected, B64Msg}
\* registrationRecord strings a client uploads
RecordPayloads == {NotB64, B64Junk, B64Msg}

\* Option<String> encryptedBundle
NoBundle == "<none>"
Bundles == {"ciphertext1", "ciphertext2"}
OptBundles == Bundles \cup {NoBundle}

\* absent value of a namespace
Absent == "<absent>"

\* serialized ServerLogin state kept between login-start and login-finish:
\* the record it was started with (fake when there was none) and the fresh
\* randomness drawn by ServerLogin::start
NoState == [fake |-> FALSE, nonce |-> 0]
States == [fake : BOOLEAN, nonce : 1 .. MaxSessions + 1]

\* stateKey strings "state:{clientIdentifier}:{millis}:{r|f}"
NoToken == [id |-> NoId, ts |-> 0, tag |-> ""]
StateKey(id, millis, is_fake_record) ==
    [id |-> id, ts |-> millis, tag |-> IF is_fake_record THEN "f" ELSE "r"]
StoreIds == {i \in ClientIds : i.len = 64}
Tokens == [id : StoreIds, ts : Times, tag : {"r", "f"}]

\* str::ends_with(":f") on a stateKey
EndsWithF(state_key) == state_key.tag = "f"

RECURSIVE Digits(_)
Digits(n) == IF n < 10 THEN 1 ELSE 1 + Digits(n \div 10)

\* byte length of a stateKey string
StateKeyLen(k) == 6 + k.id.len + 1 + Digits(k.ts) + 1 + Len(k.tag)

----------------------------------------------------------------------------
(* Responses *)

Resp(status, error) ==
    [status |-> status, error |-> error, fields |-> {"error"},
     registration_response |-> "", login_response |-> "", state_key |-> NoToken,
     session_key |-> 0, encrypted_bundle |-> NoBundle]

NoResp == Resp(0, "")
InvalidJson == Resp(400, "Invalid JSON")
InvalidClientIdentifier == Resp(400, "Invalid clientIdentifier")
RegistrationFailed == Resp(400, "Registration failed")
InvalidRecordFormat == Resp(400, "Invalid registration record format")
SessionExpired == Resp(401, "Session expired")
AuthenticationFailed == Resp(401, "Authentication failed")
\* a handler that returns Err(e): the worker runtime answers 500 with e
InternalError(msg) == Resp(500, msg)

\* the Err of a store operation, handed on with `?`
StoreUnavailable == InternalError("KvError")

RegisterStartResponse(response) ==
    [Resp(200, "") EXCEPT !.fields = {"registrationResponse"},
                          !.registration_response = response]
SuccessResponse == [Resp(200, "") EXCEPT !.fields = {"success"}]
LoginStartResponse(response, state_key) ==
    [Resp(200, "") EXCEPT !.fields = {"loginResponse", "stateKey"},
                          !.login_response = response, !.state_key = state_key]
LoginFinishResponse(session_key, encrypted_bundle) ==
    [Resp(200, "") EXCEPT !.fields = {"success", "sessionKey", "encryptedBundle"},
                          !.session_key = session_key,
                          !.encrypted_bundle = encrypted_bundle]

----------------------------------------------------------------------------
(* base64 and the PAKE primitive boundary (opaque.rs) *)

\* BASE64.decode: Err on a string that is not base64, else the bytes
Base64Decode(s) ==
    CASE s = B64Junk -> [ok |-> TRUE, bytes |-> "junk"]
      [] s = B64Rejected -> [ok |-> TRUE, bytes |-> "rejected"]
      [] s = B64Msg -> [ok |-> TRUE, bytes |-> "message"]
      [] OTHER -> [ok |-> FALSE, bytes |-> ""]

\* BASE64.encode
Base64Encode(bytes) ==
    CASE bytes = "junk" -> B64Junk
      [] bytes = "rejected" -> B64Rejected
      [] bytes = "message" -> B64Msg
      [] OTHER -> NotB64

\* BASE64.encode / BASE64.decode of a serialized server state
EncodeState(state) == [b64 |-> state]
DecodeState(value) == [ok |-> TRUE, bytes |-> value.b64]
AbsentState == [b64 |-> NoState]

\* X::deserialize(bytes) succeeds on the bytes of a protocol message
Deserializes(bytes) == bytes \in {"message", "rejected"}

PakeErr(msg) == [ok |-> FALSE, err |-> msg, response |-> "", state |-> NoState, session_key |-> 0]
PakeOk(response, state, session_key) ==
    [ok |-> TRUE, err |-> "", response |-> response, state |-> state, session_key |-> session_key]

start_registration(registration_request) ==
    IF ~Deserializes(registration_request)
    THEN PakeErr("Failed to deserialize registration request")
    ELSE IF registration_request = "rejected"
    THEN PakeErr("Failed to start registration")
    ELSE PakeOk("message", NoState, 0)

\* start_login with Some(password_file); nonce is the randomness ServerLogin::start draws
start_login(password_file, credential_request, nonce) ==
    IF ~Deserializes(credential_request)
    THEN PakeErr("Failed to deserialize credential request")
    ELSE IF ~Deserializes(password_file)
    THEN PakeErr("Failed to deserialize password file")
    ELSE IF credential_request = "rejected"
    THEN PakeErr("Failed to start login")
    ELSE PakeOk("message", [fake |-> FALSE, nonce |-> nonce], 0)

\* start_login with None: the primitive answers from a fake record
start_login_fake(credential_request, nonce) ==
    IF ~Deserializes(credential_request)
    THEN PakeErr("Failed to deserialize credential request")
    ELSE IF credential_request = "rejected"
    THEN PakeErr("Failed to start login")
    ELSE PakeOk("message", [fake |-> TRUE, nonce |-> nonce], 0)

\* finish_login: a finalization the primitive accepts yields the session key
\* of the handshake the state belongs to, whatever record the state came from
finish_login(server_state, credential_finalization) ==
    IF server_state = NoState
    THEN PakeErr("Failed to deserialize server state")
    ELSE IF ~Deserializes(credential_finalization)
    THEN PakeErr("Failed to deserialize credential finalization")
    ELSE IF credential_finalization = "rejected"
    THEN PakeErr("Login verification failed")
    ELSE PakeOk("", NoState, server_state.nonce)

----------------------------------------------------------------------------
(* State *)

VARIABLES
    credentials,   \* CREDENTIALS: "cred:{id}" -> registration record (base64)
    bundles,       \* BUNDLES: "bundle:{id}" -> encrypted bundle
    login_states,  \* LOGIN_STATES: stateKey -> server state, 60 s TTL
    now,           \* Date::now() in milliseconds
    rng,           \* number of server states drawn from OsRng so far
    served,        \* number of requests received so far
    pc,            \* per worker invocation: the await point it is at
    req,           \* per worker invocation: the request body it serves
    local,         \* per worker invocation: the handler's local variables
    resp,          \* per worker invocation: the response it returned last
    consumed,      \* history: stateKeys whose stored state a login-finish has read
    registered,    \* history: per identifier, the bundle of the register-finish answered with success
    rate_limits,   \* RATE_LIMITS: "rate:{id}:{endpoint}" -> RateLimitEntry, with its TTL
    rate_clock,    \* Date::now() in seconds
    rate_pc,       \* per check_rate_limit call: the await point it is at
    rate_local,    \* per check_rate_limit call: key, now and the entry it writes
    rate_result,   \* per check_rate_limit call: the result it returned last
    window,        \* history, per key: the window the checks so far fall in
    client,        \* a ClientRegistration or ClientLogin object: its Mutex<Option<state>> and request
    client_pc,     \* per thread: where its call on the object is
    client_call,   \* per thread: the call it makes and the server response it passes
    client_result, \* per thread: what its call returned last
    client_history \* history: calls made, calls that obtained the state, calls that succeeded

authVars == <<credentials, bundles, login_states, now, rng, served, pc, req, local, resp, consumed,
             registered>>
rateVars == <<rate_limits, rate_clock, rate_pc, rate_local, rate_result, window>>
clientVars == <<client, client_pc, client_call, client_result, client_history>>

NoBody == [endpoint |-> "", client_identifier |-> NoId, payload |-> NotB64,
           encrypted_bundle |-> NoBundle, state_key |-> NoToken]
\* store_result is the Result of the store operation the handler awaited last
NoLocal == [password_file_b64 |-> Absent, server_state_b64 |-> AbsentState, session_key |-> 0,
            store_result |-> "ok"]

Body(endpoint, id, payload, bundle, state_key) ==
    [endpoint |-> endpoint, client_identifier |-> id, payload |-> payload,
     encrypted_bundle |-> bundle, state_key |-> state_key]

AuthInit ==
    /\ credentials = [i \in StoreIds |-> Absent]
    /\ bundles = [i \in StoreIds |-> Absent]
    /\ login_states = [k \in Tokens |-> AbsentState]
    /\ now = 0
    /\ rng = 0
    /\ served = 0
    /\ pc = [p \in Procs |-> "idle"]
    /\ req = [p \in Procs |-> NoBody]
    /\ local = [p \in Procs |-> NoLocal]
    /\ resp = [p \in Procs |-> NoResp]
    /\ consumed = {}
    /\ registered = [i \in StoreIds |-> Absent]

\* "rate:{client_identifier}:{endpoint}"
RateKey(client_identifier, endpoint) == [id |-> client_identifier, endpoint |-> endpoint]
RateKeys == {RateKey(IdA, "login/start"), RateKey(IdA, "login/finish")}
NoRateKey == RateKey(NoId, "")

\* RateLimitEntry as stored, with the time its TTL runs out; count 0 stands
\* for no entry
NoEntry == [count |-> 0, window_start |-> 0, expires |-> 0]
RateLimitEntry(count, window_start) == [count |-> count, window_start |-> window_start, expires |-> 0]

NoResult == [returned |-> FALSE, allowed |-> FALSE, remaining |-> 0]
Allow == [returned |-> TRUE, allowed |-> TRUE, remaining |-> 0]
Deny(remaining) == [returned |-> TRUE, allowed |-> FALSE, remaining |-> remaining]

NoRateLocal == [key |-> NoRateKey, now |-> 0, entry |-> NoEntry]

RateInit ==
    /\ rate_limits = [k \in RateKeys |-> NoEntry]
    /\ rate_clock = 0
    /\ rate_pc = [p \in Procs |-> "idle"]
    /\ rate_local = [p \in Procs |-> NoRateLocal]
    /\ rate_result = [p \in Procs |-> NoResult]
    /\ window = [k \in RateKeys |-> [start |-> 0, checks |-> 0]]

\* the request `body` arrives at invocation p
Receive(p, body) ==
    /\ pc[p] = "idle"
    /\ served < MaxServed
    /\ served' = served + 1
    /\ req' = [req EXCEPT ![p] = body]

\* invocation p returns response r
Return(p, r) ==
    /\ pc' = [pc EXCEPT ![p] = "done"]
    /\ resp' = [resp EXCEPT ![p] = r]

Goto(p, label) ==
    /\ pc' = [pc EXCEPT ![p] = label]
    /\ resp' = [resp EXCEPT ![p] = NoResp]

\* the identifier check every handler makes
ValidClientIdentifier(client_identifier) == client_identifier.len = 64

----------------------------------------------------------------------------
(* POST /auth/opaque/register/start *)

RegisterStartOutcome(body) ==
    IF ~ValidClientIdentifier(body.client_identifier)
    THEN InvalidClientIdentifier
    ELSE LET request_bytes == Base64Decode(body.payload) IN
         IF ~request_bytes.ok
         THEN InternalError("Invalid base64 in registrationRequest")
         ELSE LET result == start_registration(request_bytes.bytes) IN
              IF ~result.ok
              THEN InternalError(result.err)
              ELSE RegisterStartResponse(Base64Encode(result.response))

\* handle_register_start that keeps the request under the identifier
handle_register_start_Stores(p, ids) ==
    \E id \in ids, payload \in Payloads :
        LET body == Body("register/start", id, payload, NoBundle, NoToken) IN
        /\ Receive(p, body)
        /\ Return(p, RegisterStartOutcome(body))
        /\ local' = [local EXCEPT ![p] = NoLocal]
        /\ credentials' = IF ValidClientIdentifier(id) /\ credentials[id] = Absent
                          THEN [credentials EXCEPT ![id] = payload]
                          ELSE credentials
        /\ UNCHANGED <<bundles, login_states, now, rng, consumed, registered, rateVars, clientVars>>

handle_register_start(p, ids) ==
    \E id \in ids, payload \in Payloads :
        LET body == Body("register/start", id, payload, NoBundle, NoToken) IN
        /\ Receive(p, body)
        /\ Return(p, RegisterStartOutcome(body))
        /\ local' = [local EXCEPT ![p] = NoLocal]
        /\ UNCHANGED <<credentials, bundles, login_states, now, rng, consumed, registered, rateVars, clientVars>>

----------------------------------------------------------------------------
(* POST /auth/opaque/register/finish *)

\* up to the await of credentials.get
handle_register_finish(p, ids) ==
    \E id \in ids, record \in RecordPayloads, bundle \in OptBundles :
        LET body == Body("register/finish", id, record, bundle, NoToken) IN
        /\ Receive(p, body)
        /\ IF ~ValidClientIdentifier(id)
           THEN /\ Return(p, InvalidClientIdentifier)
                /\ local' = [local EXCEPT ![p] = NoLocal]
           ELSE /\ Goto(p, "rf_exists")
                /\ local' = [local EXCEPT ![p] =
                                [NoLocal EXCEPT !.password_file_b64 = credentials[id]]]
        /\ UNCHANGED <<credentials, bundles, login_states, now, rng, consumed, registered, rateVars, clientVars>>

\* RegisterFinishDecision without the existence check
RegisterFinishDecision_NoExistenceCheck(existing, registration_record) ==
    IF ~Base64Decode(registration_record).ok
    THEN [put |-> FALSE, resp |-> InvalidRecordFormat]
    ELSE [put |-> TRUE, resp |-> SuccessResponse]

\* what register-finish does with the result of the existence read:
\* the response it returns at once, or none and the record it stores
RegisterFinishDecision(existing, registration_record) ==
    IF existing # Absent
    THEN [put |-> FALSE, resp |-> RegistrationFailed]
    ELSE IF ~Base64Decode(registration_record).ok
    THEN [put |-> FALSE, resp |-> InvalidRecordFormat]
    ELSE [put |-> TRUE, resp |-> SuccessResponse]

\* register_finish_put that writes only where the store holds no record
register_finish_put_IfAbsent(p) ==
    LET body == req[p]
        d == RegisterFinishDecision(credentials[body.client_identifier], body.payload) IN
    /\ pc[p] = "rf_exists"
    /\ IF ~d.put
       THEN /\ Return(p, d.resp)
            /\ UNCHANGED <<credentials, registered>>
       ELSE /\ credentials' = [credentials EXCEPT ![body.client_identifier] = body.payload]
            /\ IF body.encrypted_bundle # NoBundle
               THEN /\ Goto(p, "rf_bundle")
                    /\ UNCHANGED registered
               ELSE /\ Return(p, d.resp)
                    /\ registered' = [registered EXCEPT ![body.client_identifier] = NoBundle]
    /\ UNCHANGED <<bundles, login_states, now, rng, served, req, local, consumed, rateVars, clientVars>>

\* from the result of the get to the await of credentials.put
register_finish_put(p) ==
    LET body == req[p]
        d == RegisterFinishDecision(local[p].password_file_b64, body.payload) IN
    /\ pc[p] = "rf_exists"
    /\ IF ~d.put
       THEN /\ Return(p, d.resp)
            /\ UNCHANGED <<credentials, registered>>
       ELSE /\ credentials' = [credentials EXCEPT ![body.client_identifier] = body.payload]
            /\ IF body.encrypted_bundle # NoBundle
               THEN /\ Goto(p, "rf_bundle")
                    /\ UNCHANGED registered
               ELSE /\ Return(p, d.resp)
                    /\ registered' = [registered EXCEPT ![body.client_identifier] = NoBundle]
    /\ UNCHANGED <<bundles, login_states, now, rng, served, req, local, consumed, rateVars, clientVars>>

\* bundles.put, then the response
register_finish_bundle(p) ==
    LET body == req[p] IN
    /\ pc[p] = "rf_bundle"
    /\ bundles' = [bundles EXCEPT ![body.client_identifier] = body.encrypted_bundle]
    /\ Return(p, SuccessResponse)
    /\ registered' = [registered EXCEPT ![body.client_identifier] = body.encrypted_bundle]
    /\ UNCHANGED <<credentials, login_states, now, rng, served, req, local, consumed, rateVars, clientVars>>

----------------------------------------------------------------------------
(* POST /auth/opaque/login/start *)

\* up to the await of credentials.get
handle_login_start(p, ids) ==
    \E id \in ids, payload \in Payloads :
        LET body == Body("login/start", id, payload, NoBundle, NoToken) IN
        /\ rng < MaxSessions
        /\ Receive(p, body)
        /\ IF ~ValidClientIdentifier(id)
           THEN /\ Return(p, InvalidClientIdentifier)
                /\ local' = [local EXCEPT ![p] = NoLocal]
           ELSE /\ Goto(p, "ls_start")
                /\ local' = [local EXCEPT ![p] =
                                [NoLocal EXCEPT !.password_file_b64 = credentials[id]]]
        /\ UNCHANGED <<credentials, bundles, login_states, now, rng, consumed, registered, rateVars, clientVars>>

\* LoginStartOutcome that fails fast when no record is stored
LoginStartOutcome_FailFast(body, password_file_b64, millis, nonce) ==
    LET password_file == Base64Decode(password_file_b64)
        request_bytes == Base64Decode(body.payload)
        result == start_login(password_file.bytes, request_bytes.bytes, nonce)
        state_key == StateKey(body.client_identifier, millis, FALSE)
        NoPut(r) == [put |-> FALSE, key |-> NoToken, value |-> AbsentState, resp |-> r]
    IN  IF password_file_b64 = Absent THEN NoPut(AuthenticationFailed)
        ELSE IF ~password_file.ok THEN NoPut(InternalError("Corrupted password file"))
        ELSE IF ~request_bytes.ok THEN NoPut(InternalError("Invalid base64 in startLoginRequest"))
        ELSE IF ~result.ok THEN NoPut(InternalError(result.err))
        ELSE [put |-> TRUE, key |-> state_key, value |-> EncodeState(result.state),
              resp |-> LoginStartResponse(Base64Encode(result.response), state_key)]

\* from the result of the get to the put of the server state: the entry stored
\* under the state key (none when the handler returns Err before the put) and
\* the response
LoginStartOutcome(body, password_file_b64, millis, nonce) ==
    LET is_fake_record == password_file_b64 = Absent
        password_file == IF is_fake_record
                         THEN [ok |-> TRUE, bytes |-> ""]
                         ELSE Base64Decode(password_file_b64)
        request_bytes == Base64Decode(body.payload)
        result == IF is_fake_record
                  THEN start_login_fake(request_bytes.bytes, nonce)
                  ELSE start_login(password_file.bytes, request_bytes.bytes, nonce)
        state_key == StateKey(body.client_identifier, millis, is_fake_record)
        NoPut(msg) == [put |-> FALSE, key |-> NoToken, value |-> AbsentState,
                       resp |-> InternalError(msg)]
    IN  IF ~password_file.ok THEN NoPut("Corrupted password file")
        ELSE IF ~request_bytes.ok THEN NoPut("Invalid base64 in startLoginRequest")
        ELSE IF ~result.ok THEN NoPut(result.err)
        ELSE [put |-> TRUE, key |-> state_key, value |-> EncodeState(result.state),
              resp |-> LoginStartResponse(Base64Encode(result.response), state_key)]

login_start_put(p) ==
    LET o == LoginStartOutcome(req[p], local[p].password_file_b64, now, rng + 1) IN
    /\ pc[p] = "ls_start"
    /\ IF o.put
       THEN /\ login_states' = [login_states EXCEPT ![o.key] = o.value]
            /\ rng' = rng + 1
       ELSE UNCHANGED <<login_states, rng>>
    /\ Return(p, o.resp)
    /\ UNCHANGED <<credentials, bundles, now, served, req, local, consumed, registered, rateVars, clientVars>>

----------------------------------------------------------------------------
(* POST /auth/opaque/login/finish *)

\* the stateKey strings a client submits: every key that names a stored entry
\* or was consumed, and one key of each tag that may name nothing (a key that
\* names nothing is answered alike whatever its identifier and timestamp)
SubmittedKeys ==
    {k \in Tokens : login_states[k] # AbsentState} \cup consumed
        \cup {StateKey(IdA, 0, TRUE), StateKey(IdA, 0, FALSE)}

\* LoginFinishGet that goes on to verification whatever the get returned
LoginFinishGet_FallsThrough(observed) ==
    [found |-> TRUE, resp |-> NoResp]

\* what login-finish does with the result of login_states.get
LoginFinishGet(observed) ==
    IF observed = AbsentState
    THEN [found |-> FALSE, resp |-> SessionExpired]
    ELSE [found |-> TRUE, resp |-> NoResp]

\* login_finish_read that reads the state before it validates the identifier
login_finish_read_GetFirst(p, id, state_key, payload, observed) ==
    LET body == Body("login/finish", id, payload, NoBundle, state_key) IN
    /\ Receive(p, body)
    /\ Return(p, IF ~ValidClientIdentifier(id) THEN InvalidClientIdentifier
                 ELSE IF observed = AbsentState THEN SessionExpired
                 ELSE AuthenticationFailed)
    /\ local' = [local EXCEPT ![p] = [NoLocal EXCEPT !.server_state_b64 = observed]]
    /\ consumed' = IF observed = AbsentState THEN consumed ELSE consumed \cup {state_key}
    /\ login_states' = [login_states EXCEPT ![state_key] = AbsentState]
    /\ UNCHANGED <<credentials, bundles, now, rng, registered, rateVars, clientVars>>

\* up to the await of login_states.get, which returns `observed`
login_finish_read(p, id, state_key, payload, observed) ==
    LET body == Body("login/finish", id, payload, NoBundle, state_key)
        got == LoginFinishGet(observed) IN
    /\ Receive(p, body)
    /\ IF ~ValidClientIdentifier(id)
       THEN /\ Return(p, InvalidClientIdentifier)
            /\ local' = [local EXCEPT ![p] = NoLocal]
            /\ UNCHANGED consumed
       ELSE IF ~got.found
       THEN /\ Return(p, got.resp)
            /\ local' = [local EXCEPT ![p] = NoLocal]
            /\ UNCHANGED consumed
       ELSE /\ Goto(p, "lf_delete")
            /\ local' = [local EXCEPT ![p] =
                            [NoLocal EXCEPT !.server_state_b64 = observed]]
            /\ consumed' = consumed \cup {state_key}
    /\ UNCHANGED <<credentials, bundles, login_states, now, rng, registered, rateVars, clientVars>>

\* login-finish, the get returning what the store holds
handle_login_finish(p, ids) ==
    \E id \in ids, state_key \in SubmittedKeys, payload \in Payloads :
        login_finish_read(p, id, state_key, payload, login_states[state_key])

\* login-finish served by a replica that does not hold the entry yet: the
\* get returns none although the entry has been put
handle_login_finish_unseen(p, ids) ==
    \E id \in ids, state_key \in SubmittedKeys, payload \in Payloads :
        /\ ValidClientIdentifier(id)
        /\ login_states[state_key] # AbsentState
        /\ login_finish_read(p, id, state_key, payload, AbsentState)

\* LoginFinishOutcome with the fake-record check inverted
LoginFinishOutcome_FakeCheckInverted(body, server_state_b64) ==
    LET is_fake_record == EndsWithF(body.state_key)
        server_state == DecodeState(server_state_b64)
        finalization_bytes == Base64Decode(body.payload)
        result == finish_login(server_state.bytes, finalization_bytes.bytes)
        Fail(r) == [ok |-> FALSE, resp |-> r, session_key |-> 0]
    IN  IF ~server_state.ok THEN Fail(InternalError("Corrupted server state"))
        ELSE IF ~finalization_bytes.ok
        THEN Fail(InternalError("Invalid base64 in finishLoginRequest"))
        ELSE IF ~result.ok THEN Fail(AuthenticationFailed)
        ELSE IF ~is_fake_record THEN Fail(AuthenticationFailed)
        ELSE [ok |-> TRUE, resp |-> NoResp, session_key |-> result.session_key]

\* LoginFinishOutcome that tells a fake session from a failed verification
LoginFinishOutcome_FakeDistinct(body, server_state_b64) ==
    LET is_fake_record == EndsWithF(body.state_key)
        server_state == DecodeState(server_state_b64)
        finalization_bytes == Base64Decode(body.payload)
        result == finish_login(server_state.bytes, finalization_bytes.bytes)
        Fail(r) == [ok |-> FALSE, resp |-> r, session_key |-> 0]
    IN  IF ~server_state.ok THEN Fail(InternalError("Corrupted server state"))
        ELSE IF ~finalization_bytes.ok
        THEN Fail(InternalError("Invalid base64 in finishLoginRequest"))
        ELSE IF ~result.ok THEN Fail(AuthenticationFailed)
        ELSE IF is_fake_record THEN Fail(Resp(401, "Unknown user"))
        ELSE [ok |-> TRUE, resp |-> NoResp, session_key |-> result.session_key]

\* after the delete: decode, verify and the fake-record check; the response
\* returned at once, or none and the session key of the verified login
LoginFinishOutcome(body, server_state_b64) ==
    LET is_fake_record == EndsWithF(body.state_key)
        server_state == DecodeState(server_state_b64)
        finalization_bytes == Base64Decode(body.payload)
        result == finish_login(server_state.bytes, finalization_bytes.bytes)
        Fail(r) == [ok |-> FALSE, resp |-> r, session_key |-> 0]
    IN  IF ~server_state.ok THEN Fail(InternalError("Corrupted server state"))
        ELSE IF ~finalization_bytes.ok
        THEN Fail(InternalError("Invalid base64 in finishLoginRequest"))
        ELSE IF ~result.ok THEN Fail(AuthenticationFailed)
        ELSE IF is_fake_record THEN Fail(AuthenticationFailed)
        ELSE [ok |-> TRUE, resp |-> NoResp, session_key |-> result.session_key]

\* login_finish_delete that verifies first and deletes the state of a
\* verified login only
login_finish_delete_VerifyFirst(p) ==
    LET o == LoginFinishOutcome(req[p], local[p].server_state_b64) IN
    /\ pc[p] = "lf_delete"
    /\ IF o.ok
       THEN /\ login_states' = [login_states EXCEPT ![req[p].state_key] = AbsentState]
            /\ Goto(p, "lf_bundle")
            /\ local' = [local EXCEPT ![p].session_key = o.session_key]
       ELSE /\ Return(p, o.resp)
            /\ UNCHANGED <<login_states, local>>
    /\ UNCHANGED <<credentials, bundles, now, rng, served, req, consumed, registered, rateVars, clientVars>>

\* login_states.delete, then everything up to the await of bundles.get
login_finish_delete(p) ==
    LET o == LoginFinishOutcome(req[p], local[p].server_state_b64) IN
    /\ pc[p] = "lf_delete"
    /\ login_states' = [login_states EXCEPT ![req[p].state_key] = AbsentState]
    /\ IF o.ok
       THEN /\ Goto(p, "lf_bundle")
            /\ local' = [local EXCEPT ![p].session_key = o.session_key]
       ELSE /\ Return(p, o.resp)
            /\ UNCHANGED local
    /\ UNCHANGED <<credentials, bundles, now, rng, served, req, consumed, registered, rateVars, clientVars>>

\* the identifier whose bundle a verified login-finish reads
BundleOwner(body) == body.client_identifier

\* bundles.get, then the success response
login_finish_bundle(p) ==
    LET stored == bundles[BundleOwner(req[p])]
        encrypted_bundle == IF stored = Absent THEN NoBundle ELSE stored IN
    /\ pc[p] = "lf_bundle"
    /\ Return(p, LoginFinishResponse(local[p].session_key, encrypted_bundle))
    /\ UNCHANGED <<credentials, bundles, login_states, now, rng, served, req, local, consumed, registered, rateVars, clientVars>>

----------------------------------------------------------------------------
(* Store operations that fail: the handler hands the Err on with `?` *)

\* credentials.put fails
register_finish_put_fails(p) ==
    /\ pc[p] = "rf_exists"
    /\ RegisterFinishDecision(local[p].password_file_b64, req[p].payload).put
    /\ Return(p, StoreUnavailable)
    /\ local' = [local EXCEPT ![p].store_result = "err"]
    /\ UNCHANGED <<credentials, bundles, login_states, now, rng, served, req, consumed, registered, rateVars, clientVars>>

\* bundles.put fails, after credentials.put has been done
register_finish_bundle_fails(p) ==
    /\ pc[p] = "rf_bundle"
    /\ Return(p, StoreUnavailable)
    /\ local' = [local EXCEPT ![p].store_result = "err"]
    /\ UNCHANGED <<credentials, bundles, login_states, now, rng, served, req, consumed, registered, rateVars, clientVars>>

\* login_states.get fails
login_finish_get_fails(p, ids) ==
    \E id \in ids, state_key \in SubmittedKeys, payload \in Payloads :
        /\ ValidClientIdentifier(id)
        /\ Receive(p, Body("login/finish", id, payload, NoBundle, state_key))
        /\ Return(p, StoreUnavailable)
        /\ local' = [local EXCEPT ![p] = [NoLocal EXCEPT !.store_result = "err"]]
        /\ UNCHANGED <<credentials, bundles, login_states, now, rng, consumed, registered, rateVars, clientVars>>

\* login_finish_delete_fails that goes on to the verification
login_finish_delete_fails_Open(p) ==
    LET o == LoginFinishOutcome(req[p], local[p].server_state_b64) IN
    /\ pc[p] = "lf_delete"
    /\ IF o.ok
       THEN /\ Goto(p, "lf_bundle")
            /\ local' = [local EXCEPT ![p].session_key = o.session_key,
                                      ![p].store_result = "err"]
       ELSE /\ Return(p, o.resp)
            /\ local' = [local EXCEPT ![p].store_result = "err"]
    /\ UNCHANGED <<credentials, bundles, login_states, now, rng, served, req, consumed, registered, rateVars, clientVars>>

\* login_states.delete fails
login_finish_delete_fails(p) ==
    /\ pc[p] = "lf_delete"
    /\ Return(p, StoreUnavailable)
    /\ local' = [local EXCEPT ![p].store_result = "err"]
    /\ UNCHANGED <<credentials, bundles, login_states, now, rng, served, req, consumed, registered, rateVars, clientVars>>

----------------------------------------------------------------------------
(* Requests whose body is not the JSON the endpoint expects *)

parse_json_error(p) ==
    \E endpoint \in {"register/start", "register/finish", "login/start", "login/finish"} :
        /\ Receive(p, [NoBody EXCEPT !.endpoint = endpoint])
        /\ Return(p, InvalidJson)
        /\ local' = [local EXCEPT ![p] = NoLocal]
        /\ UNCHANGED <<credentials, bundles, login_states, now, rng, consumed, registered, rateVars, clientVars>>

----------------------------------------------------------------------------
(* The invocation ends: nothing of a request survives in the worker *)

end_invocation(p) ==
    /\ pc[p] = "done"
    /\ pc' = [pc EXCEPT ![p] = "idle"]
    /\ req' = [req EXCEPT ![p] = NoBody]
    /\ local' = [local EXCEPT ![p] = NoLocal]
    /\ resp' = [resp EXCEPT ![p] = NoResp]
    /\ UNCHANGED <<credentials, bundles, login_states, now, rng, served, consumed, registered, rateVars, clientVars>>

----------------------------------------------------------------------------
(* Environment: the clock and the store's TTL *)

Tick ==
    /\ now < MaxTime
    /\ now' = now + 1
    /\ UNCHANGED <<credentials, bundles, login_states, rng, served, pc, req, local, resp, consumed, registered, rateVars, clientVars>>

\* expire_entry for an entry put with no TTL
expire_entry_NoTtl(k) ==
    /\ FALSE
    /\ UNCHANGED <<authVars, rateVars, clientVars>>

\* the 60 s TTL of the LOGIN_STATES entry of k runs out
expire_entry(k) ==
    /\ login_states[k] # AbsentState
    /\ login_states' = [login_states EXCEPT ![k] = AbsentState]
    /\ UNCHANGED <<credentials, bundles, now, rng, served, pc, req, local, resp, consumed, registered, rateVars, clientVars>>

expire_login_state == \E k \in Tokens : expire_entry(k)

----------------------------------------------------------------------------
(* check_rate_limit (rate_limit.rs) *)

\* RateLimitDecision that denies only above max_requests
RateLimitDecision_OffByOne(entry, now_s) ==
    IF entry # NoEntry /\ now_s < entry.window_start + window_seconds
    THEN IF entry.count > max_requests
         THEN [put |-> FALSE, result |-> Deny((entry.window_start + window_seconds) - now_s),
               entry |-> NoEntry]
         ELSE [put |-> TRUE, result |-> Allow,
               entry |-> RateLimitEntry(entry.count + 1, entry.window_start)]
    ELSE [put |-> TRUE, result |-> Allow, entry |-> RateLimitEntry(1, now_s)]

\* RateLimitDecision that keeps counting in an entry whose window has elapsed
RateLimitDecision_NoReset(entry, now_s) ==
    IF entry # NoEntry
    THEN IF entry.count >= max_requests /\ now_s < entry.window_start + window_seconds
         THEN [put |-> FALSE, result |-> Deny((entry.window_start + window_seconds) - now_s),
               entry |-> NoEntry]
         ELSE [put |-> TRUE, result |-> Allow,
               entry |-> RateLimitEntry(IF entry.count >= max_requests THEN 1 ELSE entry.count + 1,
                                        entry.window_start)]
    ELSE [put |-> TRUE, result |-> Allow, entry |-> RateLimitEntry(1, now_s)]

\* the match on the entry read: deny with the seconds that remain, or allow
\* and the entry to write
RateLimitDecision(entry, now_s) ==
    IF entry # NoEntry /\ now_s < entry.window_start + window_seconds
    THEN IF entry.count >= max_requests
         THEN [put |-> FALSE, result |-> Deny((entry.window_start + window_seconds) - now_s),
               entry |-> NoEntry]
         ELSE [put |-> TRUE, result |-> Allow,
               entry |-> RateLimitEntry(entry.count + 1, entry.window_start)]
    ELSE [put |-> TRUE, result |-> Allow, entry |-> RateLimitEntry(1, now_s)]

\* history: the window a check made at now_s falls in, and how many checks
\* (allowed or denied) that window has seen, counted up to max_requests + 1
WindowAfter(w, now_s) ==
    IF w.checks = 0 \/ now_s >= w.start + window_seconds
    THEN [start |-> now_s, checks |-> 1]
    ELSE [start |-> w.start,
          checks |-> IF w.checks > max_requests THEN w.checks ELSE w.checks + 1]

\* now is sampled and the get returns `observed`, up to the await of the put
rate_limit_get(p, key, observed) ==
    LET d == RateLimitDecision(observed, rate_clock) IN
    /\ rate_pc[p] = "idle"
    /\ window' = [window EXCEPT ![key] = WindowAfter(window[key], rate_clock)]
    /\ IF d.put
       THEN /\ rate_pc' = [rate_pc EXCEPT ![p] = "put"]
            /\ rate_result' = [rate_result EXCEPT ![p] = NoResult]
       ELSE /\ rate_pc' = [rate_pc EXCEPT ![p] = "done"]
            /\ rate_result' = [rate_result EXCEPT ![p] = d.result]
    /\ rate_local' = [rate_local EXCEPT ![p] =
                         [key |-> key, now |-> rate_clock, entry |-> d.entry]]
    /\ UNCHANGED <<rate_limits, rate_clock, authVars, clientVars>>

\* the get returns what the store holds
check_rate_limit(p, keys) ==
    \E key \in keys : rate_limit_get(p, key, rate_limits[key])

\* the get fails or returns what does not parse: unwrap_or_default gives None
check_rate_limit_get_fails(p, keys) ==
    \E key \in keys : rate_limit_get(p, key, NoEntry)

\* kv.put(..).expiration_ttl(window_seconds), then Ok(())
rate_limit_put(p) ==
    /\ rate_pc[p] = "put"
    /\ rate_limits' = [rate_limits EXCEPT ![rate_local[p].key] =
                          [rate_local[p].entry EXCEPT !.expires = rate_clock + window_seconds]]
    /\ rate_pc' = [rate_pc EXCEPT ![p] = "done"]
    /\ rate_result' = [rate_result EXCEPT ![p] = Allow]
    /\ UNCHANGED <<rate_clock, rate_local, window, authVars, clientVars>>

\* rate_limit_put_fails that denies when the write fails
rate_limit_put_fails_Closed(p) ==
    /\ rate_pc[p] = "put"
    /\ rate_pc' = [rate_pc EXCEPT ![p] = "done"]
    /\ rate_result' = [rate_result EXCEPT ![p] = Deny(window_seconds)]
    /\ UNCHANGED <<rate_limits, rate_clock, rate_local, window, authVars, clientVars>>

\* kv.put or execute fails: logged, then Ok(())
rate_limit_put_fails(p) ==
    /\ rate_pc[p] = "put"
    /\ rate_pc' = [rate_pc EXCEPT ![p] = "done"]
    /\ rate_result' = [rate_result EXCEPT ![p] = Allow]
    /\ UNCHANGED <<rate_limits, rate_clock, rate_local, window, authVars, clientVars>>

\* the caller has the result
rate_limit_return(p) ==
    /\ rate_pc[p] = "done"
    /\ rate_pc' = [rate_pc EXCEPT ![p] = "idle"]
    /\ rate_local' = [rate_local EXCEPT ![p] = NoRateLocal]
    /\ rate_result' = [rate_result EXCEPT ![p] = NoResult]
    /\ UNCHANGED <<rate_limits, rate_clock, window, authVars, clientVars>>

\* a second passes; the store drops the entries whose TTL has run out
RateTick ==
    /\ rate_clock + 1 \in RateTimes
    /\ rate_clock' = rate_clock + 1
    /\ rate_limits' = [k \in RateKeys |->
                          IF rate_limits[k] # NoEntry /\ rate_limits[k].expires <= rate_clock + 1
                          THEN NoEntry ELSE rate_limits[k]]
    /\ UNCHANGED <<rate_pc, rate_local, rate_result, window, authVars, clientVars>>

Limiter(p, keys) ==
    \/ check_rate_limit(p, keys)
    \/ rate_limit_put(p)
    \/ rate_limit_return(p)

----------------------------------------------------------------------------
(* opaque-swift: ClientRegistration and ClientLogin *)

\* the server responses a caller passes to finish: bytes that do not
\* deserialize, a response the protocol rejects, a response it accepts
ServerResponses == {"junk", "rejected", "message"}

NoCall == [op |-> "", server_response |-> "junk"]
NoClientResult == [returned |-> FALSE, ok |-> FALSE, error |-> "", bytes |-> ""]
ClientOk(bytes) == [returned |-> TRUE, ok |-> TRUE, error |-> "", bytes |-> bytes]
ClientErr(error) == [returned |-> TRUE, ok |-> FALSE, error |-> error, bytes |-> ""]
ProtocolError == ClientErr("ProtocolError")
SerializationError == ClientErr("SerializationError")

\* no object has been constructed
NoClient == [kind |-> "", state |-> "None", lock |-> 0, request |-> ""]

ClientInit ==
    /\ client = NoClient
    /\ client_pc = [t \in Procs |-> "idle"]
    /\ client_call = [t \in Procs |-> NoCall]
    /\ client_result = [t \in Procs |-> NoClientResult]
    /\ client_history = [calls |-> 0, takes |-> 0, oks |-> 0]

\* the constructors start and start_with_bytes:
\* Mutex::new(Some(result.state)) and the serialized request
client_start ==
    \E kind \in {"ClientRegistration", "ClientLogin"} :
        /\ client = NoClient
        /\ client' = [kind |-> kind, state |-> "Some", lock |-> 0, request |-> "request"]
        /\ UNCHANGED <<client_pc, client_call, client_result, client_history, authVars, rateVars>>

\* a thread calls finish or finish_with_bytes
client_finish(t) ==
    \E op \in {"finish", "finish_with_bytes"}, server_response \in ServerResponses :
        /\ client # NoClient
        /\ client_pc[t] = "idle"
        /\ client_history.calls < MaxCalls
        /\ client_pc' = [client_pc EXCEPT ![t] = "lock"]
        /\ client_call' = [client_call EXCEPT ![t] = [op |-> op, server_response |-> server_response]]
        /\ client_history' = [client_history EXCEPT !.calls = @ + 1]
        /\ UNCHANGED <<client, client_result, authVars, rateVars>>

\* self.state.lock(): the thread waits until it holds the guard
client_finish_lock(t) ==
    /\ client_pc[t] = "lock"
    /\ client.lock = 0
    /\ client' = [client EXCEPT !.lock = t]
    /\ client_pc' = [client_pc EXCEPT ![t] = "take"]
    /\ UNCHANGED <<client_call, client_result, client_history, authVars, rateVars>>

\* what finish returns once it has the state: deserialize, then state.finish
ClientFinishOutcome(kind, server_response) ==
    IF server_response = "junk" THEN SerializationError
    ELSE IF server_response = "rejected" THEN ProtocolError
    ELSE ClientOk(IF kind = "ClientRegistration" THEN "registration_upload"
                  ELSE "credential_finalization")

\* client_finish_take that leaves the state in the object
client_finish_take_Keeps(t) ==
    LET r == ClientFinishOutcome(client.kind, client_call[t].server_response) IN
    /\ client_pc[t] = "take"
    /\ client' = [client EXCEPT !.lock = 0]
    /\ client_result' = [client_result EXCEPT ![t] = r]
    /\ client_history' = [client_history EXCEPT !.takes = @ + 1,
                                                 !.oks = IF r.ok THEN @ + 1 ELSE @]
    /\ client_pc' = [client_pc EXCEPT ![t] = "done"]
    /\ UNCHANGED <<client_call, authVars, rateVars>>

\* state_guard.take(), the rest of finish, and the guard dropped at the return
client_finish_take(t) ==
    /\ client_pc[t] = "take"
    /\ IF client.state = "None"
       THEN /\ client' = [client EXCEPT !.lock = 0]
            /\ client_result' = [client_result EXCEPT ![t] = ProtocolError]
            /\ UNCHANGED client_history
       ELSE LET r == ClientFinishOutcome(client.kind, client_call[t].server_response) IN
            /\ client' = [client EXCEPT !.state = "None", !.lock = 0]
            /\ client_result' = [client_result EXCEPT ![t] = r]
            /\ client_history' = [client_history EXCEPT !.takes = @ + 1,
                                                         !.oks = IF r.ok THEN @ + 1 ELSE @]
    /\ client_pc' = [client_pc EXCEPT ![t] = "done"]
    /\ UNCHANGED <<client_call, authVars, rateVars>>

\* get_request: self.request.clone(), without the lock
client_get_request(t) ==
    /\ client # NoClient
    /\ client_pc[t] = "idle"
    /\ client_history.calls < MaxCalls
    /\ client_pc' = [client_pc EXCEPT ![t] = "done"]
    /\ client_call' = [client_call EXCEPT ![t] = [op |-> "get_request", server_response |-> "junk"]]
    /\ client_result' = [client_result EXCEPT ![t] = ClientOk(client.request)]
    /\ client_history' = [client_history EXCEPT !.calls = @ + 1]
    /\ UNCHANGED <<client, authVars, rateVars>>

\* the caller has the result
client_return(t) ==
    /\ client_pc[t] = "done"
    /\ client_pc' = [client_pc EXCEPT ![t] = "idle"]
    /\ client_call' = [client_call EXCEPT ![t] = NoCall]
    /\ client_result' = [client_result EXCEPT ![t] = NoClientResult]
    /\ UNCHANGED <<client, client_history, authVars, rateVars>>

----------------------------------------------------------------------------
(* Specifications *)

vars == <<authVars, rateVars, clientVars>>

\* one step of invocation p, serving clients that use the identifiers ids
Worker(p, ids) ==
    \/ parse_json_error(p)
    \/ handle_register_start(p, ids)
    \/ handle_register_finish(p, ids)
    \/ register_finish_put(p)
    \/ register_finish_bundle(p)
    \/ handle_login_start(p, ids)
    \/ login_start_put(p)
    \/ handle_login_finish(p, ids)
    \/ login_finish_delete(p)
    \/ login_finish_bundle(p)
    \/ end_invocation(p)

Init == AuthInit /\ RateInit /\ ClientInit

\* requests served one after the other, for two well-formed identifiers and
\* one of the wrong length
Next ==
    \/ Worker(1, {IdA, IdB, IdShort})
    \/ Tick
    \/ expire_login_state

Spec == Init /\ [][Next]_vars

\* requests served one after the other, for a well-formed identifier and the
\* two kinds of malformed identifier
NextIdentifiers ==
    \/ Worker(1, {IdA, IdShort, IdNonHex})
    \/ Tick
    \/ expire_login_state

SpecIdentifiers == Init /\ [][NextIdentifiers]_vars

\* two requests served concurrently
NextConcurrent ==
    \/ \E p \in Procs : Worker(p, {IdA})
    \/ Tick
    \/ expire_login_state

SpecConcurrent == Init /\ [][NextConcurrent]_vars

\* requests served one after the other, by replicas of the session store that
\* may not hold an entry yet
NextReplica ==
    \/ Worker(1, {IdA, IdShort})
    \/ handle_login_finish_unseen(1, {IdA, IdShort})
    \/ Tick
    \/ expire_login_state

SpecReplica == Init /\ [][NextReplica]_vars

\* two registration-finish requests for one identifier served concurrently
NextRegisterRace ==
    \E p \in Procs :
        \/ handle_register_finish(p, {IdA})
        \/ register_finish_put(p)
        \/ register_finish_bundle(p)
        \/ end_invocation(p)

SpecRegisterRace == Init /\ [][NextRegisterRace]_vars

\* requests for one identifier served one after the other, the store
\* expiring every session entry whose TTL has run out
NextLive ==
    \/ Worker(1, {IdA})
    \/ Tick
    \/ expire_login_state

SpecLive ==
    /\ Init
    /\ [][NextLive]_vars
    /\ \A k \in Tokens : WF_vars(expire_entry(k))

\* requests for one identifier served one after the other, on stores whose
\* operations may fail
NextFaulty ==
    \/ Worker(1, {IdA})
    \/ register_finish_put_fails(1)
    \/ register_finish_bundle_fails(1)
    \/ login_finish_get_fails(1, {IdA})
    \/ login_finish_delete_fails(1)
    \/ Tick
    \/ expire_login_state

SpecFaulty == Init /\ [][NextFaulty]_vars

\* two threads calling one client object
NextClient ==
    \/ client_start
    \/ \E t \in Procs :
        \/ client_finish(t)
        \/ client_finish_lock(t)
        \/ client_finish_take(t)
        \/ client_get_request(t)
        \/ client_return(t)

SpecClient == Init /\ [][NextClient]_vars

\* rate limiter checks made one after the other
NextRate ==
    \/ Limiter(1, RateKeys)
    \/ RateTick

SpecRate == Init /\ [][NextRate]_vars

\* rate limiter checks made one after the other on one key, on a store whose
\* reads and writes may fail
NextRateFaulty ==
    \/ Limiter(1, {RateKey(IdA, "login/start")})
    \/ check_rate_limit_get_fails(1, {RateKey(IdA, "login/start")})
    \/ rate_limit_put_fails(1)
    \/ RateTick

SpecRateFaulty == Init /\ [][NextRateFaulty]_vars

\* two rate limiter checks made concurrently, on one key
NextRateConcurrent ==
    \/ \E p \in Procs : Limiter(p, {RateKey(IdA, "login/start")})
    \/ RateTick

SpecRateConcurrent == Init /\ [][NextRateConcurrent]_vars

----------------------------------------------------------------------------
(* Observations the properties are stated over *)

\* invocation p has just returned the response of a request to `endpoint`
\* that carried a parsed body
Answered(p, endpoint) ==
    /\ pc[p] = "done"
    /\ req[p].endpoint = endpoint
    /\ req[p].client_identifier \in ClientIds

\* invocation p receives a login-finish request in this step
ReceivesLoginFinish(p) ==
    /\ pc[p] = "idle"
    /\ pc'[p] # "idle"
    /\ req'[p].endpoint = "login/finish"
    /\ req'[p].client_identifier \in ClientIds

IsLoginSuccess(r) == r.status = 200 /\ "sessionKey" \in r.fields

----------------------------------------------------------------------------
(* C1 *)

\* C1 (as claimed): once a login-finish has read the stored state of a state
\* key, every later login-finish with a 64-character identifier that
\* carries the same state key is answered 401 "Session expired".
C1_ConsumedKeyIsExpired ==
    [][\A p \in Procs :
          (/\ ReceivesLoginFinish(p)
           /\ ValidClientIdentifier(req'[p].client_identifier)
           /\ req'[p].state_key \in consumed)
          => resp'[p] = SessionExpired]_vars

----------------------------------------------------------------------------
(* C2 *)

\* C2 (as claimed): of two login-finish requests that carry the same state
\* key and read the same stored state, at most one returns success.
C2_AtMostOneSuccess ==
    \A p, q \in Procs :
        (/\ p # q
         /\ Answered(p, "login/finish") /\ Answered(q, "login/finish")
         /\ req[p].state_key = req[q].state_key
         /\ local[p].server_state_b64 = local[q].server_state_b64)
        => ~(IsLoginSuccess(resp[p]) /\ IsLoginSuccess(resp[q]))

----------------------------------------------------------------------------
(* C3 *)

\* the state that invocation p read was created on the unknown-user branch
ReadFakeSession(p) ==
    /\ Answered(p, "login/finish")
    /\ local[p].server_state_b64 # AbsentState
    /\ local[p].server_state_b64.b64.fake

\* C3 (as claimed): a login-finish that reads the state of a session created
\* on the unknown-user branch returns 401 "Authentication failed", whatever
\* the finalization.
C3_FakeSessionAuthenticationFailed ==
    \A p \in Procs : ReadFakeSession(p) => resp[p] = AuthenticationFailed

----------------------------------------------------------------------------
(* C4 *)

\* invocation p returns from login-start in this step, having read the
\* record `record` for a request whose credential request is `payload`
ReturnsLoginStart(p, record, payload) ==
    /\ pc[p] = "ls_start"
    /\ pc'[p] = "done"
    /\ local[p].password_file_b64 = record
    /\ req[p].payload = payload

\* invocation p returns from login-finish in this step (from the verification
\* or from the bundle read), having read stored state for a state key tagged
\* tag that names its own identifier, with the finalization `payload`
ReturnsLoginFinish(p, tag, payload) ==
    /\ pc[p] \in {"lf_delete", "lf_bundle"}
    /\ pc'[p] = "done"
    /\ req[p].state_key.tag = tag
    /\ req[p].state_key.id = req[p].client_identifier
    /\ req[p].payload = payload

\* C4: once register-finish has stored a valid record for an identifier,
\* (a) a login-start for it with a credential request the primitive accepts
\* returns 200 with a state key tagged "r" that embeds the identifier and
\* names the stored state of this login, and (b) a login-finish for the same
\* identifier that finds the state of such a key and carries a
\* finalization the primitive accepts returns success with the session key of
\* that state and the bundle the registration was answered for.
C4_RegisteredLoginSucceeds ==
    [][\A p \in Procs :
          /\ ReturnsLoginStart(p, B64Msg, B64Msg) =>
                LET k == resp'[p].state_key IN
                /\ resp'[p].status = 200
                /\ k = StateKey(req[p].client_identifier, now, FALSE)
                /\ resp'[p].login_response # ""
                /\ login_states'[k] # AbsentState
                /\ ~login_states'[k].b64.fake
                /\ login_states'[k].b64.nonce = rng'
          /\ ReturnsLoginFinish(p, "r", B64Msg) =>
                /\ pc[p] = "lf_bundle"
                /\ IsLoginSuccess(resp'[p])
                /\ resp'[p].session_key = local[p].server_state_b64.b64.nonce
                /\ resp'[p].session_key # 0
                /\ resp'[p].encrypted_bundle = registered[req[p].client_identifier]]_vars

\* a login-finish for a registered identifier has returned its bundle
C4_Witness ==
    \E p \in Procs :
        /\ Answered(p, "login/finish")
        /\ IsLoginSuccess(resp[p])
        /\ req[p].state_key.id = req[p].client_identifier
        /\ resp[p].encrypted_bundle = "ciphertext1"
        /\ registered[req[p].client_identifier] = "ciphertext1"

----------------------------------------------------------------------------
(* C5 *)

\* C5: a register-finish whose existence read finds a record is answered
\* 400 "Registration failed" and changes neither the credentials nor the
\* bundles; and no step of a behaviour in which requests are served one
\* after the other changes a record that is stored.
C5_NoOverwrite ==
    [][/\ \A p \in Procs :
            (/\ pc[p] = "rf_exists" /\ pc'[p] # "rf_exists"
             /\ local[p].password_file_b64 # Absent) =>
                /\ pc'[p] = "done"
                /\ resp'[p] = RegistrationFailed
                /\ credentials' = credentials
                /\ bundles' = bundles
       /\ \A id \in StoreIds :
            credentials[id] # Absent => credentials'[id] = credentials[id]]_vars

\* a second register-finish for a registered identifier, with another record
\* and another bundle, has been refused
C5_Witness ==
    \E p \in Procs :
        /\ Answered(p, "register/finish")
        /\ resp[p] = RegistrationFailed
        /\ credentials[req[p].client_identifier] \notin {Absent, req[p].payload}
        /\ bundles[req[p].client_identifier] \notin {Absent, req[p].encrypted_bundle}
        /\ req[p].encrypted_bundle # NoBundle
        /\ Base64Decode(req[p].payload).ok

----------------------------------------------------------------------------
(* C6 *)

\* an identifier of the wrong length or with a character that is no
\* hexadecimal digit
Malformed(client_identifier) == client_identifier.len # 64 \/ ~client_identifier.hex

\* C6 (as claimed): every request with a malformed identifier, at any of the
\* four endpoints, is answered 400 "Invalid clientIdentifier".
C6_MalformedIdentifierRejected ==
    \A p \in Procs :
        (/\ pc[p] # "idle"
         /\ req[p].client_identifier \in ClientIds
         /\ Malformed(req[p].client_identifier))
        => (pc[p] = "done" /\ resp[p] = InvalidClientIdentifier)

----------------------------------------------------------------------------
(* C7 *)

\* what a client sees of a login-start response: status, field names, whether
\* the fields are empty, and the length of the state key
Shape(r) ==
    [status |-> r.status, fields |-> r.fields,
     login_response_empty |-> r.login_response = "",
     state_key_len |-> IF r.state_key = NoToken THEN 0 ELSE StateKeyLen(r.state_key)]

\* C7: a login-start for a 64-character identifier with no stored record and
\* a credential request the primitive accepts stores a session entry under
\* the state key it returns, and returns 200 with a non-empty loginResponse and
\* a non-empty stateKey, of the shape the same request gets at the same time
\* when a valid record is stored.
C7_UnknownUserIndistinguishable ==
    [][\A p \in Procs :
          ReturnsLoginStart(p, Absent, B64Msg) =>
              LET known == LoginStartOutcome(req[p], B64Msg, now, rng + 1).resp IN
              /\ resp'[p].status = 200
              /\ resp'[p].fields = {"loginResponse", "stateKey"}
              /\ resp'[p].login_response # ""
              /\ resp'[p].state_key # NoToken
              /\ login_states'[resp'[p].state_key] # AbsentState
              /\ login_states[resp'[p].state_key] # login_states'[resp'[p].state_key]
              /\ known.status = 200
              /\ Shape(resp'[p]) = Shape(known)]_vars

\* a login-start for an unregistered identifier has returned a state key
C7_Witness ==
    \E p \in Procs :
        /\ Answered(p, "login/start")
        /\ resp[p].status = 200
        /\ resp[p].state_key.tag = "f"
        /\ credentials[req[p].client_identifier] = Absent
        /\ login_states[resp[p].state_key] # AbsentState

----------------------------------------------------------------------------
(* C8 *)

\* check p returns its result in this step
RateReturns(p) == ~rate_result[p].returned /\ rate_result'[p].returned

\* C8: with checks made one after the other, a check is allowed exactly when
\* it is one of the first max_requests checks of its window; a denied check
\* reports between 1 and window_seconds seconds to wait; and the first check
\* of a window (the first ever, or the first at or after the start of the
\* previous window plus window_seconds) leaves an entry stored with count 1
\* and the time it sampled as window start.
C8_SequentialWindows ==
    [][\A p \in Procs :
          RateReturns(p) =>
              LET key == rate_local'[p].key
                  w == window'[key] IN
              /\ rate_result'[p].allowed <=> w.checks <= max_requests
              /\ ~rate_result'[p].allowed =>
                     /\ rate_result'[p].remaining >= 1
                     /\ rate_result'[p].remaining <= window_seconds
                     /\ rate_limits'[key] = rate_limits[key]
              /\ w.checks = 1 =>
                     /\ rate_limits'[key].count = 1
                     /\ rate_limits'[key].window_start = rate_local'[p].now
                     /\ w.start = rate_local'[p].now]_vars

\* a check has been denied in a window that began after an earlier window
\* had run out
C8_Witness ==
    \E p \in Procs :
        /\ rate_result[p].returned
        /\ ~rate_result[p].allowed
        /\ window[rate_local[p].key].start >= window_seconds
        /\ window[rate_local[p].key].checks = max_requests + 1
        /\ rate_limits[rate_local[p].key].count = max_requests

----------------------------------------------------------------------------
(* C9 *)

\* the window of the stored entry had run out when now_s was sampled
Elapsed(entry, now_s) == entry # NoEntry /\ now_s >= entry.window_start + window_seconds

\* C9: under every interleaving of the checks, every stored entry has a count
\* between 1 and max_requests, and a check that reads an entry whose window
\* has run out writes an entry with count 1 and the sampled time as window
\* start.
C9_CountBounded ==
    /\ [](\A k \in RateKeys :
            rate_limits[k] # NoEntry =>
                (rate_limits[k].count >= 1 /\ rate_limits[k].count <= max_requests))
    /\ [][\A p \in Procs :
            /\ (rate_pc[p] = "idle" /\ rate_pc'[p] # "idle"
                /\ Elapsed(rate_limits[rate_local'[p].key], rate_clock)) =>
                   /\ rate_pc'[p] = "put"
                   /\ rate_local'[p].entry = RateLimitEntry(1, rate_clock)
            /\ (rate_pc[p] = "put" /\ rate_pc'[p] # "put") =>
                   /\ rate_limits'[rate_local[p].key].count = rate_local[p].entry.count
                   /\ rate_limits'[rate_local[p].key].window_start =
                          rate_local[p].entry.window_start]_vars

\* two checks that read the same entry have both written, and one of them has
\* replaced an entry whose window had run out
C9_Witness ==
    /\ \A p \in Procs : rate_pc[p] = "done" /\ rate_result[p].allowed
    /\ \A p, q \in Procs : rate_local[p].entry = rate_local[q].entry
    /\ \E p \in Procs :
           /\ rate_local[p].entry.count = 1
           /\ rate_local[p].entry.window_start >= window_seconds
           /\ rate_limits[rate_local[p].key] # NoEntry
           /\ rate_limits[rate_local[p].key].window_start = rate_local[p].entry.window_start

----------------------------------------------------------------------------
(* C10 *)

\* the bundle stored for an identifier, or none
StoredBundle(client_identifier) ==
    IF bundles[client_identifier] = Absent THEN NoBundle ELSE bundles[client_identifier]

\* C10 (as claimed): a successful login-finish returns the bundle stored for
\* the identifier embedded in the state key it consumed, or no bundle when
\* none is stored for that identifier.
C10_BundleOfTokenIdentifier ==
    \A p \in Procs :
        (Answered(p, "login/finish") /\ IsLoginSuccess(resp[p])) =>
            resp[p].encrypted_bundle = StoredBundle(req[p].state_key.id)

----------------------------------------------------------------------------
(* C11 *)

\* invocation p leaves the step of login-finish that follows the get: the
\* delete, the decoding and the verification
LeavesVerification(p) == pc[p] = "lf_delete" /\ pc'[p] # "lf_delete"

\* C11: a login-finish that found stored state has deleted the entry of its
\* state key by the time the verification has an outcome: whether the
\* finalization is verified, fails verification or cannot be decoded, the
\* entry is absent when the handler returns or goes on.
C11_DeleteBeforeVerify ==
    [][\A p \in Procs :
          LeavesVerification(p) =>
              /\ login_states'[req[p].state_key] = AbsentState
              /\ \A k \in Tokens \ {req[p].state_key} :
                     login_states'[k] = login_states[k]]_vars

\* a login-finish on a session of a registered identifier has failed
\* verification, and the entry is gone
C11_Witness ==
    \E p \in Procs :
        /\ Answered(p, "login/finish")
        /\ resp[p] = AuthenticationFailed
        /\ req[p].state_key.tag = "r"
        /\ local[p].server_state_b64 # AbsentState
        /\ ~local[p].server_state_b64.b64.fake
        /\ credentials[req[p].client_identifier] # Absent
        /\ req[p].state_key \in consumed
        /\ login_states[req[p].state_key] = AbsentState

----------------------------------------------------------------------------
(* C12 *)

\* the stores and the history of consumed state keys are left as they are
StoresUnchanged ==
    /\ credentials' = credentials
    /\ bundles' = bundles
    /\ login_states' = login_states
    /\ rate_limits' = rate_limits
    /\ consumed' = consumed

\* C12: a login-finish with a 64-character identifier whose get returns none,
\* because the state key was never written, was consumed, has expired or is
\* not visible yet, returns 401 "Session expired" in the step of the get,
\* having read nothing, and leaves every store unchanged; a login-finish goes
\* on to the delete only with the state the store holds.
C12_AbsentIsExpired ==
    [][\A p \in Procs :
          (ReceivesLoginFinish(p) /\ ValidClientIdentifier(req'[p].client_identifier)) =>
              \/ /\ pc'[p] = "done"
                 /\ resp'[p] = SessionExpired
                 /\ local'[p] = NoLocal
                 /\ StoresUnchanged
              \/ /\ pc'[p] = "lf_delete"
                 /\ login_states[req'[p].state_key] # AbsentState
                 /\ local'[p].server_state_b64 = login_states[req'[p].state_key]]_vars

\* a login-finish has been answered "Session expired" for a state key that
\* is stored and that no login-finish has read
C12_Witness ==
    \E p \in Procs :
        /\ Answered(p, "login/finish")
        /\ resp[p] = SessionExpired
        /\ login_states[req[p].state_key] # AbsentState
        /\ req[p].state_key \notin consumed

----------------------------------------------------------------------------
(* C13 *)

\* the stored entry of key counts max_requests in a window that holds now_s
Exhausted(key, now_s) ==
    /\ rate_limits[key] # NoEntry
    /\ rate_limits[key].count >= max_requests
    /\ now_s < rate_limits[key].window_start + window_seconds

\* C13: on a store whose reads and writes may fail, a check is denied only
\* when the store holds an entry that counts max_requests in the current
\* window and the read returned it; in every other case the check goes on to
\* the write, with the incremented entry or with a new window of count 1, and
\* returns Allow whether the write is done or fails.
C13_FailOpen ==
    [][\A p \in Procs :
          LET key == rate_local'[p].key IN
          /\ (rate_pc[p] = "idle" /\ rate_pc'[p] = "done") =>
                 /\ ~rate_result'[p].allowed
                 /\ Exhausted(key, rate_clock)
          /\ (rate_pc[p] = "idle" /\ rate_pc'[p] = "put") =>
                 \/ rate_local'[p].entry = RateLimitEntry(1, rate_clock)
                 \/ /\ rate_limits[key] # NoEntry
                    /\ rate_clock < rate_limits[key].window_start + window_seconds
                    /\ rate_limits[key].count < max_requests
                    /\ rate_local'[p].entry =
                           RateLimitEntry(rate_limits[key].count + 1,
                                          rate_limits[key].window_start)
          /\ (rate_pc[p] = "idle" /\ rate_pc'[p] # "idle" /\ ~Exhausted(key, rate_clock)) =>
                 rate_pc'[p] = "put"
          /\ (rate_pc[p] = "put" /\ rate_pc'[p] # "put") =>
                 /\ rate_pc'[p] = "done"
                 /\ rate_result'[p] = Allow]_vars

\* a check made in a window that was exhausted has returned Allow, its read
\* having failed, and its write of the new window has failed too
C13_Witness ==
    \E p \in Procs :
        /\ rate_pc[p] = "done"
        /\ rate_result[p] = Allow
        /\ rate_local[p].now = rate_clock
        /\ Exhausted(rate_local[p].key, rate_clock)
        /\ rate_local[p].entry = RateLimitEntry(1, rate_clock)
        /\ rate_limits[rate_local[p].key].window_start < rate_clock

----------------------------------------------------------------------------
(* C14 *)

\* C14 (as claimed): a request with a 64-character identifier that the flow
\* controller is serving or has served has been through a rate limiter check
\* for its identifier and endpoint.
C14_RateCheckedBeforeFlow ==
    \A p \in Procs :
        (/\ pc[p] # "idle"
         /\ ValidClientIdentifier(req[p].client_identifier)
         /\ RateKey(req[p].client_identifier, req[p].endpoint) \in RateKeys)
        => window[RateKey(req[p].client_identifier, req[p].endpoint)].checks > 0

----------------------------------------------------------------------------
(* C15 *)

\* C15 (as claimed): every register-finish with a 64-character identifier
\* that does not succeed is answered 400 "Registration failed".
C15_RegistrationFailureUniform ==
    \A p \in Procs :
        (/\ Answered(p, "register/finish")
         /\ ValidClientIdentifier(req[p].client_identifier)
         /\ resp[p] # SuccessResponse)
        => resp[p] = RegistrationFailed

----------------------------------------------------------------------------
(* C16 *)

\* invocation p has answered a login-finish that read stored state for a
\* state key tagged `tag`, with a finalization of the kinds `payloads`
Rejects(p, tag, payloads) ==
    /\ Answered(p, "login/finish")
    /\ local[p].server_state_b64 # AbsentState
    /\ req[p].state_key.tag = tag
    /\ req[p].payload \in payloads

\* C16: a login-finish is answered 401 "Authentication failed" when the
\* session is real and the finalization fails verification, when the session
\* is fake and the finalization fails verification, and when the session is
\* fake and the primitive reports the finalization verified.
C16_RejectionUniform ==
    \A p \in Procs :
        (\/ Rejects(p, "r", {B64Junk, B64Rejected})
         \/ Rejects(p, "f", {B64Junk, B64Rejected})
         \/ Rejects(p, "f", {B64Msg}))
        => resp[p] = AuthenticationFailed

\* a fake session whose finalization the primitive accepts has been rejected
C16_Witness ==
    \E p \in Procs :
        /\ Rejects(p, "f", {B64Msg})
        /\ finish_login(local[p].server_state_b64.b64, Base64Decode(B64Msg).bytes).ok
        /\ resp[p].status = 401

----------------------------------------------------------------------------
(* C17 *)

\* invocation p receives a request for `endpoint` in this step
Receives(p, endpoint) ==
    /\ pc[p] = "idle"
    /\ pc'[p] # "idle"
    /\ req'[p].endpoint = endpoint

\* C17: a register-start, whatever its identifier and its request and
\* whatever it is answered, is answered in one step that leaves the
\* credential, bundle, session and rate limit stores as they were.
C17_RegisterStartStateless ==
    [][\A p \in Procs :
          Receives(p, "register/start") =>
              /\ pc'[p] = "done"
              /\ credentials' = credentials
              /\ bundles' = bundles
              /\ login_states' = login_states
              /\ rate_limits' = rate_limits]_vars

\* a register-start has succeeded for an identifier that has a record, a
\* bundle and a session stored
C17_Witness ==
    \E p \in Procs :
        /\ Answered(p, "register/start")
        /\ resp[p].status = 200
        /\ resp[p].registration_response # ""
        /\ credentials[req[p].client_identifier] # Absent
        /\ bundles[req[p].client_identifier] # Absent
        /\ \E k \in Tokens : k.id = req[p].client_identifier /\ login_states[k] # AbsentState

----------------------------------------------------------------------------
(* C18 *)

\* C18: at each of the four endpoints a request whose identifier has not 64
\* characters is answered 400 "Invalid clientIdentifier" in the step that
\* receives it, having read nothing, and a request answered so leaves every
\* store unchanged and consumes no state key.
C18_ValidationBeforeStores ==
    [][\A p \in Procs :
          \A endpoint \in {"register/start", "register/finish", "login/start", "login/finish"} :
              (Receives(p, endpoint) /\ req'[p].client_identifier \in ClientIds) =>
                  /\ ~ValidClientIdentifier(req'[p].client_identifier) =>
                         resp'[p] = InvalidClientIdentifier
                  /\ resp'[p] = InvalidClientIdentifier =>
                         /\ pc'[p] = "done"
                         /\ local'[p] = NoLocal
                         /\ StoresUnchanged]_vars

\* a login-finish with a malformed identifier has been rejected, and the
\* state key it names is still stored and unread
C18_Witness ==
    \E p \in Procs :
        /\ Answered(p, "login/finish")
        /\ ~ValidClientIdentifier(req[p].client_identifier)
        /\ resp[p] = InvalidClientIdentifier
        /\ login_states[req[p].state_key] # AbsentState
        /\ req[p].state_key \notin consumed

----------------------------------------------------------------------------
(* C19 *)

\* C19: a registration-finish that found no record when it read, and whose
\* record is base64, writes its record and goes on to success whatever the
\* store holds by then; so of two concurrent requests that both read before
\* either writes, both succeed and the later put replaces the earlier record.
C19_CheckThenWrite ==
    [][\A p \in Procs :
          (/\ pc[p] = "rf_exists" /\ pc'[p] # "rf_exists"
           /\ local[p].password_file_b64 = Absent
           /\ Base64Decode(req[p].payload).ok) =>
              /\ credentials'[req[p].client_identifier] = req[p].payload
              /\ \/ pc'[p] = "rf_bundle"
                 \/ pc'[p] = "done" /\ resp'[p] = SuccessResponse]_vars

\* two concurrent registration-finish requests for one identifier, with
\* different records, have both succeeded
C19_Witness ==
    \E p, q \in Procs :
        /\ p # q
        /\ Answered(p, "register/finish") /\ Answered(q, "register/finish")
        /\ req[p].client_identifier = req[q].client_identifier
        /\ resp[p] = SuccessResponse /\ resp[q] = SuccessResponse
        /\ req[p].payload # req[q].payload
        /\ credentials[req[p].client_identifier] = req[q].payload

----------------------------------------------------------------------------
(* C20 *)

\* C20: the entry of a state key is removed only by the delete of a
\* login-finish that read it or by the expiry of its TTL, and with the store
\* expiring what it has to, every entry that is stored is removed at some
\* time.
C20_SessionsEventuallyDestroyed ==
    /\ [][\A k \in Tokens :
            (login_states[k] # AbsentState /\ login_states'[k] = AbsentState) =>
                \/ \E p \in Procs :
                       /\ pc[p] = "lf_delete" /\ pc'[p] # "lf_delete"
                       /\ req[p].state_key = k
                       /\ k \in consumed
                \/ pc' = pc /\ resp' = resp /\ consumed' = consumed]_vars
    /\ \A k \in Tokens : (login_states[k] # AbsentState) ~> (login_states[k] = AbsentState)

\* the entry a login-start wrote is gone and no login-finish has read it
C20_Witness ==
    \E p \in Procs :
        /\ Answered(p, "login/start")
        /\ resp[p].status = 200
        /\ login_states[resp[p].state_key] = AbsentState
        /\ resp[p].state_key \notin consumed

----------------------------------------------------------------------------
(* C21 *)

\* the requests a register-start does not answer with a response message:
\* not base64, no protocol message, rejected by the primitive
FailingRequests == {NotB64, B64Junk, B64Rejected}

\* C21 (as claimed): a register-start with a 64-character identifier and a
\* request that is malformed or that the primitive rejects is answered with a
\* 4xx status and with the error every such request gets.
C21_RegisterStartErrorsGeneric ==
    \A p \in Procs :
        (/\ Answered(p, "register/start")
         /\ ValidClientIdentifier(req[p].client_identifier)
         /\ req[p].payload \in FailingRequests)
        => /\ resp[p].status \in 400 .. 499
           /\ \A payload \in FailingRequests :
                  RegisterStartOutcome([req[p] EXCEPT !.payload = payload]) = resp[p]

----------------------------------------------------------------------------
(* C22 *)

\* C22 (as claimed): the state key a login-start returns is the one the same
\* request gets at the same millisecond with a record stored and with none.
C22_TokenHidesRegistration ==
    \A p \in Procs :
        (Answered(p, "login/start") /\ resp[p].status = 200) =>
            \A record \in {Absent, B64Msg} :
                LoginStartOutcome(req[p], record, resp[p].state_key.ts, 1).resp.state_key
                    = resp[p].state_key

----------------------------------------------------------------------------
(* C23 *)

\* C23 (as claimed): a login-start that succeeds stores its state under a
\* state key that names no stored state.
C23_OwnSessionEntry ==
    [][\A p \in Procs :
          (pc[p] = "ls_start" /\ pc'[p] = "done" /\ resp'[p].status = 200) =>
              login_states[resp'[p].state_key] = AbsentState]_vars

----------------------------------------------------------------------------
(* C24 *)

\* C24 (as claimed): a registration-finish that found no record and is
\* answered with an error has stored no record for its identifier.
C24_RegisterFinishAllOrNothing ==
    \A p \in Procs :
        (/\ Answered(p, "register/finish")
         /\ ValidClientIdentifier(req[p].client_identifier)
         /\ local[p].password_file_b64 = Absent
         /\ resp[p].status # 200)
        => credentials[req[p].client_identifier] = Absent

----------------------------------------------------------------------------
(* C25 *)

\* C25: a login-finish whose get or whose delete has failed is at its end,
\* answered with the error of the store, with no session key from the
\* primitive and none, nor a bundle, in the response.
C25_FailClosed ==
    \A p \in Procs :
        (req[p].endpoint = "login/finish" /\ local[p].store_result = "err") =>
            /\ pc[p] = "done"
            /\ resp[p] = StoreUnavailable
            /\ local[p].session_key = 0
            /\ ~IsLoginSuccess(resp[p])
            /\ resp[p].session_key = 0
            /\ resp[p].encrypted_bundle = NoBundle

\* the delete of a login-finish that had read the state of a registered
\* identifier, with a finalization the primitive accepts, has failed
C25_Witness ==
    \E p \in Procs :
        /\ Answered(p, "login/finish")
        /\ local[p].store_result = "err"
        /\ local[p].server_state_b64 # AbsentState
        /\ req[p].state_key.tag = "r"
        /\ req[p].payload = B64Msg
        /\ login_states[req[p].state_key] = local[p].server_state_b64
        /\ resp[p].status = 500

----------------------------------------------------------------------------
(* C26 *)

\* C26 (as claimed): when the concurrent registration-finish requests for an
\* identifier have all succeeded, the stored record and the stored bundle (or
\* its absence) are those of one of the requests.
C26_RecordAndBundlePaired ==
    \A id \in StoreIds :
        (\A p \in Procs :
            /\ Answered(p, "register/finish")
            /\ req[p].client_identifier = id
            /\ resp[p] = SuccessResponse)
        => \E p \in Procs :
               /\ credentials[id] = req[p].payload
               /\ StoredBundle(id) = req[p].encrypted_bundle

----------------------------------------------------------------------------
(* C27 *)

\* thread t returns from finish or finish_with_bytes in this step
FinishReturns(t) == client_pc[t] = "take" /\ client_pc'[t] = "done"

\* C27: over all the calls made on one ClientRegistration or ClientLogin
\* object, by threads in any interleaving, at most one finish or
\* finish_with_bytes call obtains the state and at most one succeeds; a call
\* that finds the state taken, by a finish that succeeded or by one that
\* failed, returns ProtocolError whatever response it passes; and get_request
\* returns the request of the object, which no call changes.
C27_OneShotClientState ==
    /\ [](/\ client_history.takes <= 1
          /\ client_history.oks <= client_history.takes
          /\ client # NoClient => (client.state = "Some" <=> client_history.takes = 0))
    /\ [][/\ client # NoClient => (client'.request = client.request /\ client'.kind = client.kind)
          /\ \A t \in Procs :
                /\ (FinishReturns(t) /\ client.state = "None") =>
                       /\ client_result'[t] = ProtocolError
                       /\ client'.state = "None"
                /\ (client_pc[t] = "idle" /\ client_call'[t].op = "get_request") =>
                       /\ client_result'[t] = ClientOk(client.request)
                       /\ client'.state = client.state]_vars

\* a finish has failed on a response that does not deserialize, and a
\* concurrent finish with a response the protocol accepts has been refused
C27_Witness ==
    \E t, u \in Procs :
        /\ t # u
        /\ client_pc[t] = "done" /\ client_pc[u] = "done"
        /\ client_call[t].op = "finish" /\ client_call[u].op = "finish_with_bytes"
        /\ client_result[t] = SerializationError
        /\ client_call[u].server_response = "message"
        /\ client_result[u] = ProtocolError
        /\ client_history.takes = 1
        /\ client_history.oks = 0

====
